---- MODULE Spec2Model ----
(***************************************************************************)
(* Model of src/main_app.py: the Streamlit picklist merger.                *)
(*                                                                         *)
(* State: the session's account list, the "new account" text box, the      *)
(* per-account file uploaders, and what the last "Submit & Merge" click     *)
(* produced (the list returned by process_uploads, the per-account         *)
(* messages, the aggregated picklist, the outcome of the run).             *)
(*                                                                         *)
(* Data: a DataFrame is [columns : sequence of labels, rows : sequence of  *)
(* functions label -> cell].  A cell is NaN, a string, or a number.        *)
(* Numbers are kept exactly, as twice their value (field x2), so that 2.5  *)
(* is x2 = 5 and an integer is an even x2; halves are exact in float64, so *)
(* the sums of the model are the sums pandas computes.                     *)
(* The column labels of one extracted file never contain both a raw header *)
(* and the standard name it is renamed to (no rename collisions), and SKU  *)
(* and Order ID cells are strings or NaN.                                  *)
(***************************************************************************)
EXTENDS Integers, Sequences, FiniteSets, TLC

VARIABLES account_list, new_account_name, uploaded_files_map,
          all_data, report, final_picklist, outcome, clicked

vars == <<account_list, new_account_name, uploaded_files_map,
          all_data, report, final_picklist, outcome, clicked>>

(* Bound: at most this many uploaders hold a file at once. *)
MaxUploads == 2

----------------------------------------------------------------------------
(* Cells *)

NaN == [t |-> "nan"]

Str(s) == [t |-> "str", s |-> s]

Num(twice) == [t |-> "num", x2 |-> twice]

IsNaN(c) == c.t = "nan"

(* The strings of the model that Python's float() accepts, with twice their value. *)
NumLiteral == [lit \in {"2"} |-> 4]

----------------------------------------------------------------------------
(* DataFrames *)

Range(s) == {s[i] : i \in 1..Len(s)}

(* A table as tabula returns it: header labels and positional data rows. *)
Table(cols, data) ==
    [columns |-> cols,
     rows |-> [i \in 1..Len(data) |-> [c \in Range(cols) |-> data[i][CHOOSE k \in 1..Len(cols) : cols[k] = c]]]]

RECURSIVE AppendNew(_, _)
(* Index.union keeping first-seen order: the labels of `more` not yet in `cols`, appended. *)
AppendNew(cols, more) ==
    IF more = <<>> THEN cols
    ELSE AppendNew(IF Head(more) \in Range(cols) THEN cols ELSE Append(cols, Head(more)), Tail(more))

Reindex(row, cols) == [c \in Range(cols) |-> IF c \in DOMAIN row THEN row[c] ELSE NaN]

RECURSIVE ConcatColumns(_)
ConcatColumns(dfs) ==
    IF dfs = <<>> THEN <<>>
    ELSE AppendNew(dfs[1].columns, ConcatColumns(Tail(dfs)))

RECURSIVE ConcatRows(_, _)
ConcatRows(dfs, cols) ==
    IF dfs = <<>> THEN <<>>
    ELSE [i \in 1..Len(dfs[1].rows) |-> Reindex(dfs[1].rows[i], cols)] \o ConcatRows(Tail(dfs), cols)

(* pd.concat(dfs, ignore_index=True): union of the columns, rows in order, NaN where a frame lacks a column. *)
Concat(dfs) ==
    LET cols == ConcatColumns(dfs)
    IN [columns |-> cols, rows |-> ConcatRows(dfs, cols)]

(* df[name] = value, for every row. *)
WithColumn(df, name, value) ==
    LET cols == IF name \in Range(df.columns) THEN df.columns ELSE Append(df.columns, name)
    IN [columns |-> cols,
        rows |-> [i \in 1..Len(df.rows) |-> [c \in Range(cols) |-> IF c = name THEN value ELSE df.rows[i][c]]]]

(* The rename table of process_uploads. *)
RenameMap == [h \in {"Product_Code", "Final Qty", "Order Number"} |->
                 CASE h = "Product_Code" -> "SKU"
                   [] h = "Final Qty" -> "Qty"
                   [] h = "Order Number" -> "Order ID"]

NewLabel(h) == IF h \in DOMAIN RenameMap THEN RenameMap[h] ELSE h

OldLabel(df, c) == CHOOSE h \in Range(df.columns) : NewLabel(h) = c

(* df.rename(columns=RenameMap, inplace=True) *)
Rename(df) ==
    LET cols == [k \in 1..Len(df.columns) |-> NewLabel(df.columns[k])]
    IN [columns |-> cols,
        rows |-> [i \in 1..Len(df.rows) |-> [c \in Range(cols) |-> df.rows[i][OldLabel(df, c)]]]]

----------------------------------------------------------------------------
(* The uploaded PDFs, each given by what tabula.read_pdf makes of it: an      *)
(* exception, or the list of extracted tables.                               *)

Extracted(tables) == [present |-> TRUE, raises |-> FALSE, tables |-> tables]

Unreadable == [present |-> TRUE, raises |-> TRUE, tables |-> <<>>]

(* An uploader that holds no file: st.file_uploader returns None. *)
NoFile == [present |-> FALSE, raises |-> FALSE, tables |-> <<>>]

RawHeaders == <<"Product_Code", "Final Qty", "Order Number">>

StdHeaders == <<"SKU", "Qty", "Order ID">>

PdfCatalog ==
    [f \in {"unreadable", "no_tables", "raw", "messy", "no_orders", "no_qty", "no_sku", "signed", "two_tables"} |->
       CASE f = "unreadable" -> Unreadable
         [] f = "no_tables" -> Extracted(<<>>)
         [] f = "raw" -> Extracted(<<
                Table(RawHeaders, << <<Str("S2"), Num(6), Str("O2")>>,
                                     <<Str("S1"), Num(4), Str("O1")>>,
                                     <<Str("S1"), Num(10), Str("O1")>> >>) >>)
         [] f = "messy" -> Extracted(<<
                Table(StdHeaders, << <<Str("s1"), Str("2"), NaN>>,
                                     <<Str("S1"), Str("abc"), Str("O3")>>,
                                     <<NaN, Num(8), Str("O4")>>,
                                     <<Str(""), Num(2), Str("O5")>>,
                                     <<Str("S3"), NaN, Str("")>> >>) >>)
         [] f = "no_orders" -> Extracted(<<
                Table(<<"SKU", "Qty">>, << <<Str("S3"), Str("n/a")>>,
                                           <<Str("S1"), Num(10)>> >>) >>)
         [] f = "no_qty" -> Extracted(<<
                Table(<<"SKU", "Order ID">>, << <<Str("S1"), Str("O6")>> >>) >>)
         [] f = "no_sku" -> Extracted(<<
                Table(<<"Item", "Final Qty", "Order Number">>, << <<Str("S2"), Num(2), Str("O7")>> >>) >>)
         [] f = "signed" -> Extracted(<<
                Table(StdHeaders, << <<Str("S2"), Num(-2), Str("O1")>>,
                                     <<Str("S1"), Num(5), Str("O8")>> >>) >>)
         [] f = "two_tables" -> Extracted(<<
                Table(RawHeaders, << <<Str("S3"), Num(2), Str("O9")>> >>),
                Table(<<"Product_Code", "Final Qty">>, << <<Str("S1"), Num(2)>> >>) >>)]

Files == DOMAIN PdfCatalog

(* The value of an uploader that holds the file `f` of the catalog, or nothing ("none"). *)
Payload(f) == IF f = "none" THEN NoFile ELSE PdfCatalog[f]

----------------------------------------------------------------------------
(* process_uploads *)

(* pd.to_numeric(cell, errors='coerce'): a number stays, a numeric literal is parsed, anything else is NaN. *)
ToNumeric(c) ==
    CASE c.t = "num" -> c
      [] c.t = "str" -> IF c.s \in DOMAIN NumLiteral THEN Num(NumLiteral[c.s]) ELSE NaN
      [] c.t = "nan" -> NaN

(* .fillna(0) *)
FillNa(c) == IF IsNaN(c) THEN Num(0) ELSE c

(* Variant: rows whose Quantity does not parse are dropped (dropna) instead of zero-filled. *)
CleanQtyDropNa(df) ==
    LET kept == SelectSeq(df.rows, LAMBDA r : ~IsNaN(ToNumeric(r["Qty"])))
    IN [columns |-> df.columns,
        rows |-> [i \in 1..Len(kept) |-> [kept[i] EXCEPT !["Qty"] = ToNumeric(@)]]]

(* df['Qty'] = pd.to_numeric(df['Qty'], errors='coerce').fillna(0) *)
CleanQty(df) ==
    [columns |-> df.columns,
     rows |-> [i \in 1..Len(df.rows) |-> [df.rows[i] EXCEPT !["Qty"] = FillNa(ToNumeric(@))]]]

(* 'SKU' in df.columns and 'Qty' in df.columns *)
HasRequiredColumns(df) == "SKU" \in Range(df.columns) /\ "Qty" \in Range(df.columns)

(* Steps 3 and 4 and the rename: one frame per account, tagged with the account name. *)
AccountFrame(account_name, dfs) == Rename(WithColumn(Concat(dfs), "Source_Account", Str(account_name)))

(* Variant: the frame is appended whether or not it has the required columns. *)
AppendUnvalidated(acc, account_name, df) ==
    [data |-> Append(acc.data, IF HasRequiredColumns(df) THEN CleanQty(df) ELSE df),
     report |-> (account_name :> (IF HasRequiredColumns(df) THEN "success" ELSE "missing_columns")) @@ acc.report]

(* Step 5: the frame is cleaned and appended, or the account is reported and nothing is appended. *)
ValidateAndAppend(acc, account_name, df) ==
    IF HasRequiredColumns(df)
    THEN [data |-> Append(acc.data, CleanQty(df)), report |-> (account_name :> "success") @@ acc.report]
    ELSE [data |-> acc.data, report |-> (account_name :> "missing_columns") @@ acc.report]

(* One iteration of the loop of process_uploads, for an account and what tabula makes of its file. *)
ProcessAccount(acc, account_name, file) ==
    IF ~file.present THEN [data |-> acc.data, report |-> (account_name :> "no_file") @@ acc.report]
    ELSE IF file.raises
    THEN [data |-> acc.data, report |-> (account_name :> "exception") @@ acc.report]
    ELSE IF file.tables = <<>>
    THEN [data |-> acc.data, report |-> (account_name :> "no_tables") @@ acc.report]
    ELSE ValidateAndAppend(acc, account_name, AccountFrame(account_name, file.tables))

RECURSIVE ProcessLoop(_, _, _)
ProcessLoop(names, files, acc) ==
    IF names = <<>> THEN acc
    ELSE ProcessLoop(Tail(names), files, ProcessAccount(acc, Head(names), files[Head(names)]))

(* process_uploads(uploaded_files_map): the dict is walked in insertion order, `names`. *)
process_uploads(names, files) == ProcessLoop(names, files, [data |-> <<>>, report |-> <<>>])

----------------------------------------------------------------------------
(* The aggregation of the "Submit & Merge Picklists" handler *)

(* The SKU strings of the model in Python's str order (by code point). *)
CodePointOrder == <<"", "S1", "S2", "S3", "s1">>

StrIndex(s) == CHOOSE k \in 1..Len(CodePointOrder) : CodePointOrder[k] = s

StrLess(a, b) == StrIndex(a) < StrIndex(b)

(* Variant: no deduplication. *)
KeepAll(s) == s

RECURSIVE Unique(_)
(* Series.unique(): each value once, in order of first appearance. *)
Unique(s) ==
    IF s = <<>> THEN <<>>
    ELSE LET front == Unique(SubSeq(s, 1, Len(s) - 1))
             last == s[Len(s)]
         IN IF last \in Range(front) THEN front ELSE Append(front, last)

RECURSIVE Insert(_, _)
Insert(sorted, k) ==
    IF sorted = <<>> THEN <<k>>
    ELSE IF StrLess(k, Head(sorted)) THEN <<k>> \o sorted
    ELSE <<Head(sorted)>> \o Insert(Tail(sorted), k)

RECURSIVE Sorted(_)
Sorted(s) == IF s = <<>> THEN <<>> ELSE Insert(Sorted(Tail(s)), Head(s))

(* The keys in the order of their first row, NaN keys left out (groupby's dropna=True). *)
FirstSeenKeys(df) ==
    LET present == SelectSeq(df.rows, LAMBDA r : ~IsNaN(r["SKU"]))
    IN Unique([i \in 1..Len(present) |-> present[i]["SKU"].s])

(* Variant: groupby(..., sort=False). *)
KeysUnsorted(df) == FirstSeenKeys(df)

(* groupby('SKU'): the group keys, sorted (sort=True). *)
GroupKeys(df) == Sorted(FirstSeenKeys(df))

(* The rows of one group, in frame order. *)
GroupRows(df, key) == SelectSeq(df.rows, LAMBDA r : r["SKU"] = Str(key))

(* Variant: 'last' in place of 'sum'. *)
LastQty(rows) == IF rows[Len(rows)]["Qty"].t = "num" THEN rows[Len(rows)]["Qty"].x2 ELSE 0

RECURSIVE SumQty(_)
(* 'sum' over the Qty cells of a group; NaN cells are skipped. *)
SumQty(rows) ==
    IF rows = <<>> THEN 0
    ELSE (IF rows[1]["Qty"].t = "num" THEN rows[1]["Qty"].x2 ELSE 0) + SumQty(Tail(rows))

(* x.astype(str) on an Order ID cell. *)
AsStr(c) == CASE c.t = "str" -> c.s [] c.t = "nan" -> "nan"

(* lambda x: ', '.join(x.unique()) on Source_Account: the entries that are joined. *)
SourceAccounts(rows) == Unique([i \in 1..Len(rows) |-> rows[i]["Source_Account"].s])

(* lambda x: ', '.join(x.astype(str).unique()) on Order ID: the entries that are joined. *)
OrdersInvolved(rows) == Unique([i \in 1..Len(rows) |-> AsStr(rows[i]["Order ID"])])

AggregateRow(df, key) ==
    LET rows == GroupRows(df, key)
    IN [SKU |-> key,
        Total_Quantity |-> SumQty(rows),
        Source_Accounts |-> SourceAccounts(rows),
        Orders_Involved |-> OrdersInvolved(rows)]

(* groupby('SKU').agg(...) raises KeyError when a column it names is not in the frame. *)
AggRaises(df) == \E c \in {"SKU", "Qty", "Source_Account", "Order ID"} : c \notin Range(df.columns)

(* combined_df.groupby('SKU').agg(...).reset_index() *)
GroupByAgg(df) ==
    LET keys == GroupKeys(df)
    IN [k \in 1..Len(keys) |-> AggregateRow(df, keys[k])]

(* What a click on "Submit & Merge Picklists" produces from the uploaders. *)
MergeRun(names, files) ==
    IF \A i \in 1..Len(names) : ~files[names[i]].present
    THEN [outcome |-> "no_files", data |-> <<>>, report |-> <<>>, picklist |-> <<>>]
    ELSE LET p == process_uploads(names, files)
             combined_df == Concat(p.data)
         IN IF p.data = <<>>
            THEN [outcome |-> "no_success", data |-> p.data, report |-> p.report, picklist |-> <<>>]
            ELSE IF AggRaises(combined_df)
            THEN [outcome |-> "crashed", data |-> p.data, report |-> p.report, picklist |-> <<>>]
            ELSE [outcome |-> "merged", data |-> p.data, report |-> p.report,
                  picklist |-> GroupByAgg(combined_df)]

----------------------------------------------------------------------------
(* The session *)

InitialAccounts ==
    <<"Drench", "Drench India", "Sparsh", "Sparsh SC",
      "Shine Arc", "Shopforher", "Ansh Ent.", "Meesho India">>

(* What can be typed into the "new account" box. *)
TypedNames == {"", "Drench", "New Seller"}

NoRun == [outcome |-> "idle", data |-> <<>>, report |-> <<>>, picklist |-> <<>>]

(* The script reruns after every interaction; `run` is what the merge button's branch shows. *)
Shows(run) ==
    /\ outcome' = run.outcome
    /\ all_data' = run.data
    /\ report' = run.report
    /\ final_picklist' = run.picklist

Init ==
    /\ account_list = InitialAccounts
    /\ new_account_name = ""
    /\ uploaded_files_map = [a \in Range(InitialAccounts) |-> "none"]
    /\ outcome = "idle"
    /\ all_data = <<>>
    /\ report = <<>>
    /\ final_picklist = <<>>
    /\ clicked = [op |-> "start", arg |-> ""]

Uploaded == {a \in DOMAIN uploaded_files_map : uploaded_files_map[a] # "none"}

(* uploaded_files_map as the handler sees it: account name -> uploaded file or None. *)
UploadedFiles == [a \in DOMAIN uploaded_files_map |-> Payload(uploaded_files_map[a])]

(* A file is put into (or taken out of) one account's uploader. *)
Upload(a, f) ==
    /\ a \in Range(account_list)
    /\ f \in Files \cup {"none"}
    /\ f # uploaded_files_map[a]
    /\ Cardinality((Uploaded \ {a}) \cup (IF f = "none" THEN {} ELSE {a})) <= MaxUploads
    /\ uploaded_files_map' = [uploaded_files_map EXCEPT ![a] = f]
    /\ clicked' = [op |-> "upload", arg |-> ""]
    /\ Shows(NoRun)
    /\ UNCHANGED <<account_list, new_account_name>>

(* st.button("Submit & Merge Picklists") *)
SubmitMerge ==
    /\ clicked' = [op |-> "submit", arg |-> ""]
    /\ Shows(MergeRun(account_list, UploadedFiles))
    /\ UNCHANGED <<account_list, new_account_name, uploaded_files_map>>

(* Text is typed into the "Enter new Account Name" box. *)
TypeName(n) ==
    /\ n \in TypedNames
    /\ n # new_account_name
    /\ new_account_name' = n
    /\ clicked' = [op |-> "type", arg |-> n]
    /\ Shows(NoRun)
    /\ UNCHANGED <<account_list, uploaded_files_map>>

(* Variant: the membership test is left out. *)
add_account_unchecked(list, name) ==
    IF name # "" THEN [list |-> Append(list, name), name |-> ""] ELSE [list |-> list, name |-> name]

(* The body of add_account(): the list and the text box after the callback. *)
add_account(list, name) ==
    IF name # "" /\ name \notin Range(list)
    THEN [list |-> Append(list, name), name |-> ""]
    ELSE [list |-> list, name |-> name]

(* The uploaders are rebuilt from the account list; a new account's uploader is empty. *)
Uploaders(list, old) == [a \in Range(list) |-> IF a \in DOMAIN old THEN old[a] ELSE "none"]

(* st.button("Add Account", on_click=add_account) *)
AddAccount ==
    LET r == add_account(account_list, new_account_name)
    IN /\ account_list' = r.list
       /\ new_account_name' = r.name
       /\ uploaded_files_map' = Uploaders(r.list, uploaded_files_map)
       /\ clicked' = [op |-> "add", arg |-> new_account_name]
       /\ Shows(NoRun)

(* list.remove(account): the first entry equal to `account` is deleted. *)
remove(list, account) ==
    LET k == CHOOSE i \in 1..Len(list) : list[i] = account /\ \A j \in 1..(i - 1) : list[j] # account
    IN SubSeq(list, 1, k - 1) \o SubSeq(list, k + 1, Len(list))

(* st.button(f"Remove {account}"), one per entry of the list *)
RemoveAccount(account) ==
    /\ account \in Range(account_list)
    /\ account_list' = remove(account_list, account)
    /\ uploaded_files_map' = Uploaders(account_list', uploaded_files_map)
    /\ clicked' = [op |-> "remove", arg |-> account]
    /\ Shows(NoRun)
    /\ UNCHANGED new_account_name

(* The order-processing tab, with the account list as configured at start. *)
Next ==
    \/ \E a \in Range(account_list), f \in Files \cup {"none"} : Upload(a, f)
    \/ SubmitMerge

Spec == Init /\ [][Next]_vars

(* The configuration tab. *)
NextRegistry ==
    \/ \E n \in TypedNames : TypeName(n)
    \/ AddAccount
    \/ \E a \in Range(account_list) : RemoveAccount(a)

SpecRegistry == Init /\ [][NextRegistry]_vars

----------------------------------------------------------------------------
(* What the claims speak of, read off the uploaded files themselves *)

SkuHeaders == {"SKU", "Product_Code"}

QtyHeaders == {"Qty", "Final Qty"}

OrderHeaders == {"Order ID", "Order Number"}

Has(tbl, headers) == headers \cap Range(tbl.columns) # {}

CellOf(tbl, i, headers) ==
    IF Has(tbl, headers) THEN tbl.rows[i][CHOOSE h \in headers : h \in Range(tbl.columns)] ELSE NaN

TablesOf(a) == UploadedFiles[a].tables

(* The account supplied a file that can be read, holds a table, and names both required columns. *)
Usable(a) ==
    /\ UploadedFiles[a].present
    /\ ~UploadedFiles[a].raises
    /\ \E t \in 1..Len(TablesOf(a)) : Has(TablesOf(a)[t], SkuHeaders)
    /\ \E t \in 1..Len(TablesOf(a)) : Has(TablesOf(a)[t], QtyHeaders)

(* The account supplied a file and its processing ended in a skip or a failure. *)
Unusable(a) == UploadedFiles[a].present /\ ~Usable(a)

HasOrderColumn(a) == \E t \in 1..Len(TablesOf(a)) : Has(TablesOf(a)[t], OrderHeaders)

Parsable(c) == c.t = "num" \/ (c.t = "str" /\ c.s \in DOMAIN NumLiteral)

(* Twice the quantity a cell stands for: its number, and 0 when it has none. *)
QtyOf(c) ==
    IF c.t = "num" THEN c.x2
    ELSE IF c.t = "str" /\ c.s \in DOMAIN NumLiteral THEN NumLiteral[c.s]
    ELSE 0

TableRows(a, t) ==
    [i \in 1..Len(TablesOf(a)[t].rows) |->
        [account |-> a, tbl |-> t, idx |-> i,
         sku |-> CellOf(TablesOf(a)[t], i, SkuHeaders),
         raw_qty |-> CellOf(TablesOf(a)[t], i, QtyHeaders),
         order |-> CellOf(TablesOf(a)[t], i, OrderHeaders)]]

RECURSIVE RowSeqFrom(_, _)
RowSeqFrom(a, t) == IF t > Len(TablesOf(a)) THEN <<>> ELSE TableRows(a, t) \o RowSeqFrom(a, t + 1)

(* The rows of one account's file, table after table. *)
RowSeq(a) == RowSeqFrom(a, 1)

RowsOfAccount(a) == Range(RowSeq(a))

RECURSIVE AllRowsFrom(_)
AllRowsFrom(k) ==
    IF k > Len(account_list) THEN <<>>
    ELSE (IF Usable(account_list[k]) THEN RowSeq(account_list[k]) ELSE <<>>) \o AllRowsFrom(k + 1)

(* The rows of the accounts that supplied a usable file, in the order of the account list. *)
AllRows == AllRowsFrom(1)

CleanedRows == Range(AllRows)

GroupOf(key) == SelectSeq(AllRows, LAMBDA r : r.sku = Str(key))

RowsWithSku(key) == {r \in CleanedRows : r.sku = Str(key)}

RECURSIVE SumOf(_)
SumOf(rs) == IF rs = {} THEN 0 ELSE LET r == CHOOSE x \in rs : TRUE IN QtyOf(r.raw_qty) + SumOf(rs \ {r})

RECURSIVE SeqsOf(_)
(* Every ordering of a set of accounts. *)
SeqsOf(S) == IF S = {} THEN {<<>>} ELSE UNION {{<<a>> \o q : q \in SeqsOf(S \ {a})} : a \in S}

Totals(picklist) == {<<picklist[k].SKU, picklist[k].Total_Quantity>> : k \in 1..Len(picklist)}

Merged == outcome = "merged"

PickRows == Range(final_picklist)

(* The frame process_uploads appended for an account, if it appended one. *)
FramesOf(a) == {k \in 1..Len(all_data) : \E i \in 1..Len(all_data[k].rows) : all_data[k].rows[i]["Source_Account"] = Str(a)}

Position(s, x) == CHOOSE k \in 1..Len(s) : s[k] = x /\ \A j \in 1..(k - 1) : s[j] # x

Count(s, x) == Cardinality({k \in 1..Len(s) : s[k] = x})

Ran == outcome \in {"merged", "crashed", "no_success"}

----------------------------------------------------------------------------
(* Claims *)

(* C1: in a merge result, Total_Quantity of every SKU is the sum of Quantity over every
   cleaned row with that SKU across the successfully processed accounts, and the totals
   are the same for every order in which the accounts are processed. *)
C1_TotalIsSum ==
    Merged =>
        /\ \A row \in PickRows : row.Total_Quantity = SumOf(RowsWithSku(row.SKU))
        /\ \A order \in SeqsOf(Uploaded) :
              LET run == MergeRun(order, UploadedFiles)
              IN run.outcome = "merged" /\ Totals(run.picklist) = Totals(final_picklist)

C1_Witness ==
    /\ Merged
    /\ \E row \in PickRows :
          /\ Len(row.Source_Accounts) >= 2
          /\ Cardinality(RowsWithSku(row.SKU)) >= 3
          /\ row.Total_Quantity > 0

(* C2: an account whose processing ends in a skip or failure (unreadable file, no tables,
   required column missing) contributes no frame and appears in no Source_Accounts; every
   other account that supplied a file is processed; the run's result is the result of
   the run over the usable accounts only. *)
C2_FailedAccountsContributeNothing ==
    Ran =>
        LET good == [a \in DOMAIN uploaded_files_map |-> IF Usable(a) THEN UploadedFiles[a] ELSE NoFile]
            run == MergeRun(account_list, good)
        IN /\ \A a \in DOMAIN uploaded_files_map : Unusable(a) =>
                 /\ FramesOf(a) = {}
                 /\ report[a] \in {"exception", "no_tables", "missing_columns"}
                 /\ \A row \in PickRows : a \notin Range(row.Source_Accounts)
           /\ \A a \in DOMAIN uploaded_files_map : Usable(a) =>
                 report[a] = "success" /\ Cardinality(FramesOf(a)) = 1
           /\ Len(all_data) = Cardinality({a \in DOMAIN uploaded_files_map : Usable(a)})
           /\ all_data = run.data
           /\ final_picklist = run.picklist
           /\ outcome = (IF run.outcome = "no_files" THEN "no_success" ELSE run.outcome)

C2_Witness ==
    /\ Merged
    /\ \E a \in DOMAIN uploaded_files_map : Unusable(a) /\ report[a] = "missing_columns"
    /\ final_picklist # <<>>

(* The same table with every Quantity cell that does not parse replaced by the number 0. *)
ZeroFilledTable(tbl) ==
    [columns |-> tbl.columns,
     rows |-> [i \in 1..Len(tbl.rows) |->
                 [c \in Range(tbl.columns) |->
                     IF c \in QtyHeaders /\ ~Parsable(tbl.rows[i][c]) THEN Num(0) ELSE tbl.rows[i][c]]]]

ZeroFilled(file) == [file EXCEPT !.tables = [t \in 1..Len(file.tables) |-> ZeroFilledTable(file.tables[t])]]

(* C3: in an account's table that has the required columns, a Quantity that cannot be
   parsed as a number (or is missing) is replaced by 0 and the row is kept: the account
   is accepted with all its rows in order, the row's SKU (if it has one) is in the
   picklist the run produces, and the whole run (frames, messages, picklist, outcome)
   is the run of the same files with 0 written in place of each such Quantity, so
   that no such cell rejects an account or aborts a run. *)
C3_UnparsableQuantityIsZero ==
    Ran =>
        /\ \A a \in DOMAIN uploaded_files_map : Usable(a) =>
              /\ report[a] = "success"
              /\ \E k \in 1..Len(all_data) :
                    /\ Len(all_data[k].rows) = Len(RowSeq(a))
                    /\ \A i \in 1..Len(RowSeq(a)) :
                          /\ all_data[k].rows[i]["Source_Account"] = Str(a)
                          /\ all_data[k].rows[i]["SKU"] = RowSeq(a)[i].sku
                          /\ ~Parsable(RowSeq(a)[i].raw_qty) => all_data[k].rows[i]["Qty"] = Num(0)
              /\ Merged => \A r \in RowsOfAccount(a) : (~Parsable(r.raw_qty) /\ ~IsNaN(r.sku)) =>
                    \E row \in PickRows : row.SKU = r.sku.s /\ a \in Range(row.Source_Accounts)
        /\ LET run == MergeRun(account_list, [a \in DOMAIN uploaded_files_map |-> ZeroFilled(UploadedFiles[a])])
           IN /\ run.outcome = outcome
              /\ run.report = report
              /\ run.picklist = final_picklist
              /\ run.data = all_data

C3_Witness ==
    /\ Merged
    /\ \E a \in DOMAIN uploaded_files_map : Usable(a) /\
          \E r \in RowsOfAccount(a) :
             /\ r.raw_qty = Str("abc")
             /\ \E row \in PickRows : row.SKU = r.sku.s /\ a \in Range(row.Source_Accounts)
                                      /\ row.Total_Quantity = 0

(* C4 (as claimed): when a usable account's table has no Order ID column, the run still
   completes with a picklist in which that account's rows are counted. *)
C4_OrderIdOptional ==
    \A a \in DOMAIN uploaded_files_map : (Ran /\ Usable(a) /\ ~HasOrderColumn(a)) =>
        /\ Merged
        /\ \A r \in RowsOfAccount(a) : ~IsNaN(r.sku) =>
              \E row \in PickRows : row.SKU = r.sku.s /\ a \in Range(row.Source_Accounts)

(* C5 (as claimed): Orders_Involved of every aggregate row lists only the non-empty
   Order ID values of that SKU's rows: no empty entry, no stringified missing value. *)
C5_OnlyNonEmptyOrders ==
    Merged => \A row \in PickRows :
        Range(row.Orders_Involved) =
            {r.order.s : r \in {x \in RowsWithSku(row.SKU) : x.order.t = "str" /\ x.order.s # ""}}

(* C6: in every aggregate row each contributing account name is in Source_Accounts
   exactly once and each contributing Order ID is in Orders_Involved exactly once,
   both in the order in which the values are first seen among that SKU's rows. *)
C6_EntriesOnceFirstSeen ==
    Merged => \A row \in PickRows :
        LET g == GroupOf(row.SKU)
            accounts == [i \in 1..Len(g) |-> g[i].account]
            withOrder == SelectSeq(g, LAMBDA r : r.order.t = "str")
            orders == [i \in 1..Len(withOrder) |-> withOrder[i].order.s]
        IN /\ Range(row.Source_Accounts) = Range(accounts)
           /\ \A x \in Range(accounts) : Count(row.Source_Accounts, x) = 1
           /\ \A x, y \in Range(accounts) : Position(accounts, x) < Position(accounts, y) =>
                 Position(row.Source_Accounts, x) < Position(row.Source_Accounts, y)
           /\ \A x \in Range(orders) : Count(row.Orders_Involved, x) = 1
           /\ \A x, y \in Range(orders) : Position(orders, x) < Position(orders, y) =>
                 Position(row.Orders_Involved, x) < Position(row.Orders_Involved, y)

C6_Witness ==
    /\ Merged
    /\ \E row \in PickRows :
          LET g == GroupOf(row.SKU)
          IN /\ \E i, j \in 1..Len(g) : i < j /\ g[i].account = g[j].account
                                        /\ g[i].order = g[j].order /\ g[i].order.t = "str"
             /\ Len(row.Source_Accounts) = 2
             /\ Len(row.Orders_Involved) = 2

(* C7 (as claimed): every Quantity that enters aggregation is a non-negative integer and
   so is every Total_Quantity. *)
C7_NonNegativeInteger ==
    Merged =>
        /\ \A k \in 1..Len(all_data) : \A i \in 1..Len(all_data[k].rows) :
              all_data[k].rows[i]["Qty"].x2 >= 0 /\ all_data[k].rows[i]["Qty"].x2 % 2 = 0
        /\ \A row \in PickRows : row.Total_Quantity >= 0 /\ row.Total_Quantity % 2 = 0

(* C8 (as claimed): a row whose SKU is the empty string or missing is dropped: no
   aggregate row has an empty SKU, and such rows add to no total. *)
C8_EmptySkuDropped ==
    Merged => \A row \in PickRows :
        /\ row.SKU # ""
        /\ row.Total_Quantity = SumOf({r \in RowsWithSku(row.SKU) : r.sku.s # ""})

(* C9: the merge result has exactly one aggregate row per distinct SKU string found in
   the rows of the successful accounts, in ascending SKU order, whatever the order of
   the accounts and of the rows. *)
C9_OneRowPerSkuAscending ==
    Merged =>
        /\ {row.SKU : row \in PickRows} = {r.sku.s : r \in {x \in CleanedRows : ~IsNaN(x.sku)}}
        /\ \A i, j \in 1..Len(final_picklist) : i < j =>
              StrIndex(final_picklist[i].SKU) < StrIndex(final_picklist[j].SKU)
        /\ \A order \in SeqsOf(Uploaded) :
              LET other == MergeRun(order, UploadedFiles).picklist
              IN [k \in 1..Len(other) |-> other[k].SKU] = [k \in 1..Len(final_picklist) |-> final_picklist[k].SKU]

C9_Witness ==
    /\ Merged
    /\ {"S1", "s1", "S2"} \subseteq {row.SKU : row \in PickRows}
    /\ \E i, j \in 1..Len(AllRows) : i < j /\ AllRows[i].sku = Str("s1") /\ AllRows[j].sku = Str("S1")

NoDuplicateNoEmpty(list) ==
    /\ \A i \in 1..Len(list) : list[i] # ""
    /\ \A i, j \in 1..Len(list) : i # j => list[i] # list[j]

(* C10: after any sequence of add and remove actions the account list holds no
   duplicate and no empty name; an add of an empty or present name leaves the list
   unchanged, an add of a new name appends it, a remove deletes exactly the named
   entry and keeps the order of the others. *)
C10_RegistryIsAnOrderedSet ==
    /\ NoDuplicateNoEmpty(account_list)
    /\ [][/\ NoDuplicateNoEmpty(account_list')
          /\ clicked'.op = "add" =>
                IF new_account_name = "" \/ new_account_name \in Range(account_list)
                THEN account_list' = account_list
                ELSE account_list' = Append(account_list, new_account_name)
          /\ clicked'.op = "remove" =>
                /\ Len(account_list') = Len(account_list) - 1
                /\ account_list' = SelectSeq(account_list, LAMBDA x : x # clicked'.arg)
          /\ clicked'.op \notin {"add", "remove"} => account_list' = account_list]_vars

C10_Witness ==
    /\ clicked = [op |-> "add", arg |-> "Drench"]
    /\ "Drench" \in Range(account_list)
    /\ account_list[Len(account_list)] = "New Seller"
    /\ Len(account_list) = Len(InitialAccounts)

====
